---------------------------- MODULE Spec2Model ----------------------------
(***************************************************************************)
(* go-fsq: a fixed size queue of tasks (src/fsq.go), its ring buffer       *)
(* (src/unnamed/part_000) and its reusable tasks (src/task.go).            *)
(*                                                                         *)
(* Spec      every exported call (Start, Stop, Add) and every completion   *)
(*           handler (actionWrapper) is one atomic step.                   *)
(* SpecFair  the same steps, with weak fairness of the wrapper goroutines: *)
(*           an action that was started returns and its handler then runs. *)
(*           Only the completions are kept in the history variable.        *)
(* SpecNil   as Spec, the callers passing nil and non-nil actions/params.  *)
(* SpecFine  concurrent Add callers and wrapper goroutines interleaved     *)
(*           statement by statement, as the code runs them: without a lock.*)
(*                                                                         *)
(* A task pointer is the index of the task object in the heap; the nil     *)
(* pointer is 0.  An id string is a sequence of characters.                *)
(***************************************************************************)
EXTENDS Integers, Sequences, FiniteSets, Bags, TLC

VARIABLES
    q,         \* the memory reachable from Queue: the fields of the FixedSizeQueue
               \* struct (fsq.go:27-37), items holding the ringBuffer struct, and in
               \* heap the task objects it points to
    gor,       \* Spec: the bag of live actionWrapper goroutines, [task, pc]
    call,      \* Spec, history: the last call made, what it returned and dispatched
    admitted,  \* Spec, history: the waiting tasks, in the order their Add succeeded
    thr,       \* SpecFine: the bag of live goroutines (Add callers, then wrappers),
               \* each with its pc and locals
    crashed    \* SpecFine: a goroutine panicked, which ends the process

vars == <<q, gor, call, admitted, thr, crashed>>

---------------------------------------------------------------------------
(* Bounds of the model. *)

MaxCap == 2     \* largest size passed to Init
MaxProc == 1    \* largest maxProcessCount passed to Init
Callers == 2    \* SpecFine: goroutines that call Add, once each

---------------------------------------------------------------------------
(* Values. *)

NilTask == 0
Nil == "nil"

\* valid task state values (task.go:6-8)
ready == "r"
waiting == "w"
processing == "p"

\* the errors Add returns; NoErr is a nil error
NoErr == "nil"
ErrNotRunning == "is not running. Try starting and then adding."
ErrNoCapacity == "has no capacity at this time. Try later."
ErrInvalidId == "Id for task is not valid, only uses space characters."
ErrDuplicateId == "Id for task is already waiting to be processed."
ErrNilCall == "Task action and/or params are nil, cannot make call."
ErrAction == "error returned by the action"

Whitespace == {" ", "\t"}

\* the ids callers pass: empty, blank, and two that are valid
ValidIds == { <<"a">>, <<" ", "b">> }
Ids == { <<>>, <<" ">>, <<"\t", " ">> } \cup ValidIds
\* the actions and params callers pass: nil, or a function and a map
Actions == {Nil, "f"}
Params == {Nil, "m"}
SizeArgs == (0 - 1)..MaxCap
ProcArgs == (0 - 1)..MaxProc

---------------------------------------------------------------------------
(* strings.TrimSpace, as isValidId uses it. *)

RECURSIVE TrimLeft(_)
TrimLeft(s) ==
    IF Len(s) > 0 /\ s[1] \in Whitespace THEN TrimLeft(Tail(s)) ELSE s

RECURSIVE TrimRight(_)
TrimRight(s) ==
    IF Len(s) > 0 /\ s[Len(s)] \in Whitespace
    THEN TrimRight(SubSeq(s, 1, Len(s) - 1))
    ELSE s

TrimSpaceIdentity(s) == s

TrimSpace(s) == TrimRight(TrimLeft(s))

---------------------------------------------------------------------------
(* The ring buffer. *)

NewRingBuffer(size) ==
    [ MaxSize     |-> size,
      CurrentSize |-> 0,
      IsFull      |-> FALSE,
      items       |-> [i \in 0..(size - 1) |-> NilTask],
      head        |-> 0,
      tail        |-> 0 ]

EnqueueNeverFull(rb, t) ==
    IF rb.CurrentSize = rb.MaxSize
    THEN [rb |-> rb, err |-> TRUE]
    ELSE LET tl == (rb.head + rb.CurrentSize) % rb.MaxSize
         IN  [ rb  |-> [rb EXCEPT !.tail = tl,
                                  !.CurrentSize = @ + 1,
                                  !.items[tl] = t],
               err |-> FALSE ]

Enqueue(rb, t) ==
    IF rb.CurrentSize = rb.MaxSize
    THEN [rb |-> rb, err |-> TRUE]
    ELSE LET tl == (rb.head + rb.CurrentSize) % rb.MaxSize
             sz == rb.CurrentSize + 1
         IN  [ rb  |-> [rb EXCEPT !.tail = tl,
                                  !.CurrentSize = sz,
                                  !.items[tl] = t,
                                  !.IsFull = IF sz = rb.MaxSize THEN TRUE ELSE @],
               err |-> FALSE ]

DequeueKeepsHead(rb) ==
    IF rb.CurrentSize = 0
    THEN [rb |-> rb, task |-> NilTask]
    ELSE [ rb   |-> [rb EXCEPT !.items[rb.head] = NilTask,
                                !.CurrentSize = @ - 1,
                                !.IsFull = FALSE],
           task |-> rb.items[rb.head] ]

DequeueKeepsFull(rb) ==
    IF rb.CurrentSize = 0
    THEN [rb |-> rb, task |-> NilTask]
    ELSE [ rb   |-> [rb EXCEPT !.items[rb.head] = NilTask,
                                !.head = (rb.head + 1) % rb.MaxSize,
                                !.CurrentSize = @ - 1],
           task |-> rb.items[rb.head] ]

DequeueNewest(rb) ==
    IF rb.CurrentSize = 0
    THEN [rb |-> rb, task |-> NilTask]
    ELSE LET last == (rb.head + rb.CurrentSize - 1) % rb.MaxSize
         IN  [ rb   |-> [rb EXCEPT !.items[last] = NilTask,
                                   !.CurrentSize = @ - 1,
                                   !.IsFull = FALSE],
               task |-> rb.items[last] ]

Dequeue(rb) ==
    IF rb.CurrentSize = 0
    THEN [rb |-> rb, task |-> NilTask]
    ELSE [ rb   |-> [rb EXCEPT !.items[rb.head] = NilTask,
                                !.head = (rb.head + 1) % rb.MaxSize,
                                !.CurrentSize = @ - 1,
                                !.IsFull = FALSE],
           task |-> rb.items[rb.head] ]

---------------------------------------------------------------------------
(* Tasks. *)

NewTask == [state |-> "", action |-> Nil, params |-> Nil, id |-> 0, externalId |-> <<>>]

CleanKeepsParams(t) ==
    [t EXCEPT !.state = ready, !.action = Nil, !.externalId = <<>>]

Clean(t) ==
    [t EXCEPT !.state = ready, !.action = Nil, !.params = Nil, !.externalId = <<>>]

\* TRUE when CallAction invokes t.action, FALSE when it returns its own error
CallsActionAlways(t) == TRUE

CallsAction(t) == ~(t.action = Nil \/ t.params = Nil)

---------------------------------------------------------------------------
(* The queue. *)

MapDeleteNothing(m, k) == m

MapPut(m, k, v) == [x \in DOMAIN m \cup {k} |-> IF x = k THEN v ELSE m[x]]
MapDelete(m, k) == [x \in DOMAIN m \ {k} |-> m[x]]
EmptyMap == [x \in {} |-> NilTask]

InitQueue(size, maxProcessCount) ==
    [ items                    |-> NewRingBuffer(IF size <= 0 THEN 1 ELSE size),
      tasksById                |-> EmptyMap,
      waitingTasksByExternalId |-> EmptyMap,
      readyTaskPool            |-> <<>>,
      countProcessing          |-> 0,
      maxProcessing            |-> maxProcessCount,
      taskCount                |-> 0,
      isRunning                |-> FALSE,
      heap                     |-> <<>> ]

\* the error isValidId returns
isValidId(Q, id) ==
    IF Len(TrimSpace(id)) = 0 THEN ErrInvalidId
    ELSE IF id \in DOMAIN Q.waitingTasksByExternalId THEN ErrDuplicateId
    ELSE NoErr

popTaskOldest(slice) ==
    IF Len(slice) = 0
    THEN [slice |-> slice, task |-> NilTask]
    ELSE [slice |-> Tail(slice), task |-> Head(slice)]

popTask(slice) ==
    IF Len(slice) = 0
    THEN [slice |-> slice, task |-> NilTask]
    ELSE [slice |-> SubSeq(slice, 1, Len(slice) - 1), task |-> slice[Len(slice)]]

\* processTask once a task was dequeued (fsq.go:152-155);
\* go |-> the task handed to a new actionWrapper goroutine
dispatchKeepsId(Q, t) ==
    [ q  |-> [Q EXCEPT !.countProcessing = @ + 1,
                       !.heap[t].state = processing],
      go |-> t ]

dispatch(Q, t) ==
    [ q  |-> [Q EXCEPT !.waitingTasksByExternalId =
                           MapDelete(@, Q.heap[t].externalId),
                       !.countProcessing = @ + 1,
                       !.heap[t].state = processing],
      go |-> t ]

processTaskNoLimit(Q) ==
    LET d == Dequeue(Q.items)
    IN  IF d.task = NilTask
        THEN [q |-> [Q EXCEPT !.items = d.rb], go |-> NilTask]
        ELSE dispatch([Q EXCEPT !.items = d.rb], d.task)

processTaskLimitOffByOne(Q) ==
    IF Q.countProcessing > Q.maxProcessing
    THEN [q |-> Q, go |-> NilTask]
    ELSE LET d == Dequeue(Q.items)
         IN  IF d.task = NilTask
             THEN [q |-> [Q EXCEPT !.items = d.rb], go |-> NilTask]
             ELSE dispatch([Q EXCEPT !.items = d.rb], d.task)

processTaskOnlyWhenRunning(Q) ==
    IF Q.countProcessing >= Q.maxProcessing \/ ~Q.isRunning
    THEN [q |-> Q, go |-> NilTask]
    ELSE LET d == Dequeue(Q.items)
         IN  IF d.task = NilTask
             THEN [q |-> [Q EXCEPT !.items = d.rb], go |-> NilTask]
             ELSE dispatch([Q EXCEPT !.items = d.rb], d.task)

processTask(Q) ==
    IF Q.countProcessing >= Q.maxProcessing
    THEN [q |-> Q, go |-> NilTask]
    ELSE LET d == Dequeue(Q.items)
         IN  IF d.task = NilTask
             THEN [q |-> [Q EXCEPT !.items = d.rb], go |-> NilTask]
             ELSE dispatch([Q EXCEPT !.items = d.rb], d.task)

AdmitNoDispatch(Q, action, params, id) ==
    LET reuse == Len(Q.readyTaskPool) > 0
        pop   == popTask(Q.readyTaskPool)
        t     == IF reuse THEN pop.task ELSE Len(Q.heap) + 1
        Q1    == IF reuse
                 THEN [Q EXCEPT !.readyTaskPool = pop.slice]
                 ELSE [Q EXCEPT !.taskCount = @ + 1,
                                !.heap = Append(@, [NewTask EXCEPT !.id = Q.taskCount + 1]),
                                !.tasksById = MapPut(@, Q.taskCount + 1, t)]
        Q2    == [Q1 EXCEPT !.heap[t].state = waiting,
                            !.heap[t].action = action,
                            !.heap[t].params = params,
                            !.heap[t].externalId = id,
                            !.waitingTasksByExternalId = MapPut(@, id, t)]
        Q3    == [Q2 EXCEPT !.items = Enqueue(Q2.items, t).rb]
    IN  [q |-> Q3, err |-> NoErr, task |-> t, go |-> NilTask]

\* Add from the choice of the task on (fsq.go:99-119)
Admit(Q, action, params, id) ==
    LET reuse == Len(Q.readyTaskPool) > 0
        pop   == popTask(Q.readyTaskPool)
        t     == IF reuse THEN pop.task ELSE Len(Q.heap) + 1
        Q1    == IF reuse
                 THEN [Q EXCEPT !.readyTaskPool = pop.slice]
                 ELSE [Q EXCEPT !.taskCount = @ + 1,
                                !.heap = Append(@, [NewTask EXCEPT !.id = Q.taskCount + 1]),
                                !.tasksById = MapPut(@, Q.taskCount + 1, t)]
        Q2    == [Q1 EXCEPT !.heap[t].state = waiting,
                            !.heap[t].action = action,
                            !.heap[t].params = params,
                            !.heap[t].externalId = id,
                            !.waitingTasksByExternalId = MapPut(@, id, t)]
        Q3    == [Q2 EXCEPT !.items = Enqueue(Q2.items, t).rb]
        r     == processTask(Q3)
    IN  [q |-> r.q, err |-> NoErr, task |-> t, go |-> r.go]

AddWhenStopped(Q, action, params, id) ==
    IF Q.items.IsFull
    THEN [q |-> Q, err |-> ErrNoCapacity, task |-> NilTask, go |-> NilTask]
    ELSE IF isValidId(Q, id) # NoErr
    THEN [q |-> Q, err |-> isValidId(Q, id), task |-> NilTask, go |-> NilTask]
    ELSE Admit(Q, action, params, id)

Add(Q, action, params, id) ==
    IF ~Q.isRunning
    THEN [q |-> Q, err |-> ErrNotRunning, task |-> NilTask, go |-> NilTask]
    ELSE IF Q.items.IsFull
    THEN [q |-> Q, err |-> ErrNoCapacity, task |-> NilTask, go |-> NilTask]
    ELSE IF isValidId(Q, id) # NoErr
    THEN [q |-> Q, err |-> isValidId(Q, id), task |-> NilTask, go |-> NilTask]
    ELSE Admit(Q, action, params, id)

\* actionWrapper once CallAction has returned (fsq.go:166-172)
actionWrapperNoDispatch(Q, t) ==
    LET Q1 == [Q EXCEPT !.heap[t] = Clean(@),
                        !.readyTaskPool = Append(@, t),
                        !.countProcessing = @ - 1]
    IN  [q |-> Q1, go |-> NilTask]

actionWrapper(Q, t) ==
    LET Q1 == [Q EXCEPT !.heap[t] = Clean(@),
                        !.readyTaskPool = Append(@, t),
                        !.countProcessing = @ - 1]
    IN  processTask(Q1)

---------------------------------------------------------------------------
(* The steps of Spec.  Every step leaves in call what it did, when its     *)
(* name is in keep, the calls whose history the specification keeps.       *)

Spawn(g, t) == IF t = NilTask THEN g ELSE g (+) SetToBag({[task |-> t, pc |-> "spawned"]})

Called(op, id, ret, t, d) ==
    [op |-> op, id |-> id, ret |-> ret, task |-> t, dispatched |-> d]

NoCall == Called("", <<>>, NoErr, NilTask, NilTask)

Record(keep, c) == IF c.op \in keep THEN c ELSE NoCall

AllCalls == {"Start", "Stop", "Add", "CallAction", "Complete"}

Dispatched(adm, d) == SelectSeq(adm, LAMBDA x : x # d)

Init ==
    /\ \E size \in SizeArgs, maxProcessCount \in ProcArgs :
           q = InitQueue(size, maxProcessCount)
    /\ gor = EmptyBag
    /\ call = NoCall
    /\ admitted = <<>>
    /\ thr = EmptyBag
    /\ crashed = FALSE

Start(keep) ==
    /\ q' = [q EXCEPT !.isRunning = TRUE]
    /\ call' = Record(keep, Called("Start", <<>>, NoErr, NilTask, NilTask))
    /\ UNCHANGED <<gor, admitted, thr, crashed>>

Stop(keep) ==
    /\ q' = [q EXCEPT !.isRunning = FALSE]
    /\ call' = Record(keep, Called("Stop", <<>>, NoErr, NilTask, NilTask))
    /\ UNCHANGED <<gor, admitted, thr, crashed>>

AddCall(keep, ids, actions, paramss) ==
    \E id \in ids, action \in actions, params \in paramss :
        LET r == Add(q, action, params, id)
        IN  /\ q' = r.q
            /\ gor' = Spawn(gor, r.go)
            /\ call' = Record(keep, Called("Add", id, r.err, r.task, r.go))
            /\ admitted' = Dispatched(IF r.task = NilTask THEN admitted
                                      ELSE Append(admitted, r.task), r.go)
            /\ UNCHANGED <<thr, crashed>>

\* a wrapper goroutine starts: task.CallAction() either invokes the action or not
CallAction(keep) ==
    \E g \in BagToSet(gor) :
        /\ g.pc = "spawned"
        /\ gor' = (gor (-) SetToBag({g})) (+)
                  SetToBag({[g EXCEPT !.pc = IF CallsAction(q.heap[g.task])
                                             THEN "running" ELSE "skipped"]})
        /\ call' = Record(keep, Called("CallAction", <<>>, NoErr, g.task, NilTask))
        /\ UNCHANGED <<q, admitted, thr, crashed>>

CompleteAbandonsFailed(keep) ==
    \E g \in BagToSet(gor), res \in {NoErr, ErrAction} :
        /\ g.pc \in {"running", "skipped"}
        /\ LET r == IF g.pc = "running" /\ res = ErrAction
                    THEN [q |-> q, go |-> NilTask]
                    ELSE actionWrapper(q, g.task)
           IN  /\ q' = r.q
               /\ gor' = Spawn(gor (-) SetToBag({g}), r.go)
               /\ call' = Record(keep, Called("Complete", <<>>,
                                 IF g.pc = "skipped" THEN ErrNilCall ELSE res,
                                 g.task, r.go))
               /\ admitted' = Dispatched(admitted, r.go)
               /\ UNCHANGED <<thr, crashed>>

\* CallAction returns (the action's result, or ErrNilCall) and the handler runs
Complete(keep) ==
    \E g \in BagToSet(gor), res \in {NoErr, ErrAction} :
        /\ g.pc \in {"running", "skipped"}
        /\ LET r == actionWrapper(q, g.task)
           IN  /\ q' = r.q
               /\ gor' = Spawn(gor (-) SetToBag({g}), r.go)
               /\ call' = Record(keep, Called("Complete", <<>>,
                                 IF g.pc = "skipped" THEN ErrNilCall ELSE res,
                                 g.task, r.go))
               /\ admitted' = Dispatched(admitted, r.go)
               /\ UNCHANGED <<thr, crashed>>

\* Spec: every id, with a function and a map
Next ==
    \/ Start(AllCalls)
    \/ Stop(AllCalls)
    \/ AddCall(AllCalls, Ids, {"f"}, {"m"})
    \/ CallAction(AllCalls)
    \/ Complete(AllCalls)

Spec == Init /\ [][Next]_vars

\* SpecFair: an action that was started returns, and the goroutine is scheduled
NextFair ==
    \/ Start({"Complete"})
    \/ Stop({"Complete"})
    \/ AddCall({"Complete"}, Ids, {"f"}, {"m"})
    \/ CallAction({"Complete"})
    \/ Complete({"Complete"})

Fairness == WF_vars(CallAction({"Complete"})) /\ WF_vars(Complete({"Complete"}))

SpecFair == Init /\ [][NextFair]_vars /\ Fairness

\* SpecNil: every action and params, nil or not, under one valid id
NextNil ==
    \/ Start(AllCalls)
    \/ Stop(AllCalls)
    \/ AddCall(AllCalls, {<<"a">>}, Actions, Params)
    \/ CallAction(AllCalls)
    \/ Complete(AllCalls)

SpecNil == Init /\ [][NextNil]_vars

---------------------------------------------------------------------------
(* SpecFine: the code as goroutines run it.  Callers goroutines each call  *)
(* Add once, with a function, a map and a valid id; every go statement     *)
(* adds an actionWrapper goroutine.  A step is one statement of the        *)
(* goroutine at the line its pc names; a statement that reads and then     *)
(* writes one shared variable (++, --, append) is two steps, the value     *)
(* read being kept in the local n or tasks.  Statements that touch only    *)
(* locals are taken with the step before them.  The code takes no lock, so *)
(* any live goroutine may take the next step.  Map operations and the      *)
(* field writes of one task are taken as single steps, and memory as       *)
(* sequentially consistent: these are some of the executions of the        *)
(* program, not all of them.  A panic ends the process (crashed).          *)
(* thr is the bag of the live goroutines; a local that is not read again   *)
(* is reset, and a goroutine that returned is gone.                        *)

Thread(pc, id, t) == [pc |-> pc, id |-> id, task |-> t, tasks |-> <<>>, n |-> 0]

\* Go's %, which truncates toward zero
GoMod(a, b) == IF a >= 0 THEN a % b ELSE 0 - ((0 - a) % b)

At(g, pc) == ~crashed /\ g.pc = pc

\* the locals of g that are read at pc or later
Live(g, pc) ==
    [ pc    |-> pc,
      id    |-> IF pc \in {"84", "89", "94", "101", "177", "181", "106", "107",
                           "108", "109", "112", "116"} THEN g.id ELSE <<>>,
      task  |-> IF pc \in {"84", "89", "94", "101", "177", "181", "rb24", "rb25",
                           "142", "rb33", "rb37", "169", "169w"}
                THEN NilTask ELSE g.task,
      tasks |-> IF pc \in {"181", "168w"} THEN g.tasks ELSE <<>>,
      n     |-> IF pc \in {"107", "rb21w", "rb41w", "153w", "169w"} THEN g.n ELSE 0 ]

\* goroutine g goes on to pc (or returns: "done"), with the shared memory Q
\* and the locals t, tasks and n
GoesWith(g, pc, Q, t, tasks, n) ==
    /\ thr' = (thr (-) SetToBag({g})) (+)
              (IF pc = "done" THEN EmptyBag
               ELSE SetToBag({Live([g EXCEPT !.task = t, !.tasks = tasks, !.n = n], pc)}))
    /\ q' = Q
    /\ UNCHANGED <<gor, call, admitted, crashed>>

Goes(g, pc, Q) == GoesWith(g, pc, Q, g.task, g.tasks, g.n)

Panic == crashed' = TRUE /\ UNCHANGED <<q, thr, gor, call, admitted>>

InitFine ==
    /\ \E size \in SizeArgs, maxProcessCount \in ProcArgs :
           q = InitQueue(size, maxProcessCount)
    /\ \E ids \in [1..Callers -> ValidIds] :
           thr = [g \in {Thread("84", ids[i], NilTask) : i \in 1..Callers}
                    |-> Cardinality({i \in 1..Callers : ids[i] = g.id})]
    /\ gor = EmptyBag
    /\ call = NoCall
    /\ admitted = <<>>
    /\ crashed = FALSE

StartFine == ~crashed /\ Start({})

Add84(g) ==
    At(g, "84") /\ Goes(g, IF ~q.isRunning THEN "done" ELSE "89", q)

Add89(g) ==
    At(g, "89") /\ Goes(g, IF q.items.IsFull THEN "done" ELSE "94", q)

Add94(g) ==
    At(g, "94") /\ Goes(g, IF isValidId(q, g.id) # NoErr THEN "done" ELSE "101", q)

Add101(g) ==
    At(g, "101") /\ Goes(g, IF Len(q.readyTaskPool) > 0 THEN "177" ELSE "106", q)

\* popTask: tasks := *slice
popTask177(g) ==
    At(g, "177") /\ GoesWith(g, "181", q, g.task, q.readyTaskPool, g.n)

\* popTask: nil from an empty slice, else the last task, and *slice = tasks[:length - 1]
popTask181(g) ==
    /\ At(g, "181")
    /\ LET pop == popTask(g.tasks)
       IN  GoesWith(g, "112",
                    IF pop.task = NilTask THEN q ELSE [q EXCEPT !.readyTaskPool = pop.slice],
                    pop.task, g.tasks, g.n)

\* taskToUse = &task{}, and the read of q.taskCount++
Add106(g) ==
    /\ At(g, "106")
    /\ GoesWith(g, "107", [q EXCEPT !.heap = Append(@, NewTask)],
                Len(q.heap) + 1, g.tasks, q.taskCount)

\* the write of q.taskCount++
Add107(g) ==
    At(g, "107") /\ Goes(g, "108", [q EXCEPT !.taskCount = g.n + 1])

Add108(g) ==
    At(g, "108") /\ Goes(g, "109", [q EXCEPT !.heap[g.task].id = q.taskCount])

Add109(g) ==
    /\ At(g, "109")
    /\ Goes(g, "112", [q EXCEPT !.tasksById =
                                   MapPut(@, q.heap[g.task].id, g.task)])

\* the setters of lines 112-115; on a nil taskToUse the first one panics
Add112(g) ==
    /\ At(g, "112")
    /\ IF g.task = NilTask
       THEN Panic
       ELSE Goes(g, "116", [q EXCEPT !.heap[g.task].state = waiting,
                                     !.heap[g.task].action = "f",
                                     !.heap[g.task].params = "m",
                                     !.heap[g.task].externalId = g.id])

Add116(g) ==
    /\ At(g, "116")
    /\ Goes(g, "rb16", [q EXCEPT !.waitingTasksByExternalId =
                                    MapPut(@, g.id, g.task)])

\* Enqueue, whose error Add ignores
Enqueue16(g) ==
    /\ At(g, "rb16")
    /\ Goes(g, IF q.items.CurrentSize = q.items.MaxSize THEN "142" ELSE "rb20", q)

Enqueue20(g) ==
    /\ At(g, "rb20")
    /\ Goes(g, "rb21", [q EXCEPT !.items.tail =
                           GoMod(q.items.head + q.items.CurrentSize, q.items.MaxSize)])

\* the read of rb.CurrentSize++
Enqueue21(g) ==
    At(g, "rb21") /\ GoesWith(g, "rb21w", q, g.task, g.tasks, q.items.CurrentSize)

\* the write of rb.CurrentSize++
Enqueue21w(g) ==
    At(g, "rb21w") /\ Goes(g, "rb22", [q EXCEPT !.items.CurrentSize = g.n + 1])

\* (*rb.items)[rb.tail] = task, which panics on an index out of range
Enqueue22(g) ==
    /\ At(g, "rb22")
    /\ IF q.items.tail \notin DOMAIN q.items.items
       THEN Panic
       ELSE Goes(g, "rb24", [q EXCEPT !.items.items[q.items.tail] = g.task])

Enqueue24(g) ==
    /\ At(g, "rb24")
    /\ Goes(g, IF q.items.CurrentSize = q.items.MaxSize THEN "rb25" ELSE "142", q)

Enqueue25(g) ==
    At(g, "rb25") /\ Goes(g, "142", [q EXCEPT !.items.IsFull = TRUE])

processTask142(g) ==
    /\ At(g, "142")
    /\ Goes(g, IF q.countProcessing >= q.maxProcessing THEN "done" ELSE "rb33", q)

\* Dequeue returns nil from an empty buffer, and processTask then returns
Dequeue33(g) ==
    At(g, "rb33") /\ Goes(g, IF q.items.CurrentSize = 0 THEN "done" ELSE "rb37", q)

Dequeue37(g) ==
    /\ At(g, "rb37")
    /\ GoesWith(g, "rb39", q, q.items.items[q.items.head], g.tasks, g.n)

Dequeue39(g) ==
    At(g, "rb39") /\ Goes(g, "rb40", [q EXCEPT !.items.items[q.items.head] = NilTask])

Dequeue40(g) ==
    /\ At(g, "rb40")
    /\ Goes(g, "rb41", [q EXCEPT !.items.head = GoMod(q.items.head + 1, q.items.MaxSize)])

\* the read of rb.CurrentSize--
Dequeue41(g) ==
    At(g, "rb41") /\ GoesWith(g, "rb41w", q, g.task, g.tasks, q.items.CurrentSize)

\* the write of rb.CurrentSize--
Dequeue41w(g) ==
    At(g, "rb41w") /\ Goes(g, "rb42", [q EXCEPT !.items.CurrentSize = g.n - 1])

\* rb.IsFull = false; processTask returns when the task it got is nil
Dequeue42(g) ==
    /\ At(g, "rb42")
    /\ Goes(g, IF g.task = NilTask THEN "done" ELSE "152",
            [q EXCEPT !.items.IsFull = FALSE])

processTask152(g) ==
    /\ At(g, "152")
    /\ Goes(g, "153", [q EXCEPT !.waitingTasksByExternalId =
                                    MapDelete(@, q.heap[g.task].externalId)])

\* the read of q.countProcessing++
processTask153(g) ==
    At(g, "153") /\ GoesWith(g, "153w", q, g.task, g.tasks, q.countProcessing)

\* the write of q.countProcessing++
processTask153w(g) ==
    At(g, "153w") /\ Goes(g, "154", [q EXCEPT !.countProcessing = g.n + 1])

processTask154(g) ==
    At(g, "154") /\ Goes(g, "155", [q EXCEPT !.heap[g.task].state = processing])

\* go q.actionWrapper(task), and processTask returns
processTask155(g) ==
    /\ At(g, "155")
    /\ thr' = (thr (-) SetToBag({g})) (+) SetToBag({Thread("160", <<>>, g.task)})
    /\ UNCHANGED <<q, gor, call, admitted, crashed>>

\* task.CallAction() invokes the action, or returns its own error
actionWrapper160(g) ==
    /\ At(g, "160")
    /\ Goes(g, IF CallsAction(q.heap[g.task]) THEN "action" ELSE "167", q)

\* the action returns
actionReturns(g) ==
    At(g, "action") /\ Goes(g, "167", q)

actionWrapper167(g) ==
    At(g, "167") /\ Goes(g, "168", [q EXCEPT !.heap[g.task] = Clean(@)])

\* the read of *q.readyTaskPool = append(*q.readyTaskPool, task)
actionWrapper168(g) ==
    At(g, "168") /\ GoesWith(g, "168w", q, g.task, q.readyTaskPool, g.n)

\* the write of *q.readyTaskPool = append(*q.readyTaskPool, task)
actionWrapper168w(g) ==
    /\ At(g, "168w")
    /\ Goes(g, "169", [q EXCEPT !.readyTaskPool = Append(g.tasks, g.task)])

\* the read of q.countProcessing--
actionWrapper169(g) ==
    At(g, "169") /\ GoesWith(g, "169w", q, g.task, g.tasks, q.countProcessing)

\* the write of q.countProcessing--, then q.processTask()
actionWrapper169w(g) ==
    At(g, "169w") /\ Goes(g, "142", [q EXCEPT !.countProcessing = g.n - 1])

\* Start is called at any time; Stop is not called while the goroutines run
NextFine ==
    \/ StartFine
    \/ \E g \in BagToSet(thr) : Add84(g)
    \/ \E g \in BagToSet(thr) : Add89(g)
    \/ \E g \in BagToSet(thr) : Add94(g)
    \/ \E g \in BagToSet(thr) : Add101(g)
    \/ \E g \in BagToSet(thr) : popTask177(g)
    \/ \E g \in BagToSet(thr) : popTask181(g)
    \/ \E g \in BagToSet(thr) : Add106(g)
    \/ \E g \in BagToSet(thr) : Add107(g)
    \/ \E g \in BagToSet(thr) : Add108(g)
    \/ \E g \in BagToSet(thr) : Add109(g)
    \/ \E g \in BagToSet(thr) : Add112(g)
    \/ \E g \in BagToSet(thr) : Add116(g)
    \/ \E g \in BagToSet(thr) : Enqueue16(g)
    \/ \E g \in BagToSet(thr) : Enqueue20(g)
    \/ \E g \in BagToSet(thr) : Enqueue21(g)
    \/ \E g \in BagToSet(thr) : Enqueue21w(g)
    \/ \E g \in BagToSet(thr) : Enqueue22(g)
    \/ \E g \in BagToSet(thr) : Enqueue24(g)
    \/ \E g \in BagToSet(thr) : Enqueue25(g)
    \/ \E g \in BagToSet(thr) : processTask142(g)
    \/ \E g \in BagToSet(thr) : Dequeue33(g)
    \/ \E g \in BagToSet(thr) : Dequeue37(g)
    \/ \E g \in BagToSet(thr) : Dequeue39(g)
    \/ \E g \in BagToSet(thr) : Dequeue40(g)
    \/ \E g \in BagToSet(thr) : Dequeue41(g)
    \/ \E g \in BagToSet(thr) : Dequeue41w(g)
    \/ \E g \in BagToSet(thr) : Dequeue42(g)
    \/ \E g \in BagToSet(thr) : processTask152(g)
    \/ \E g \in BagToSet(thr) : processTask153(g)
    \/ \E g \in BagToSet(thr) : processTask153w(g)
    \/ \E g \in BagToSet(thr) : processTask154(g)
    \/ \E g \in BagToSet(thr) : processTask155(g)
    \/ \E g \in BagToSet(thr) : actionWrapper160(g)
    \/ \E g \in BagToSet(thr) : actionReturns(g)
    \/ \E g \in BagToSet(thr) : actionWrapper167(g)
    \/ \E g \in BagToSet(thr) : actionWrapper168(g)
    \/ \E g \in BagToSet(thr) : actionWrapper168w(g)
    \/ \E g \in BagToSet(thr) : actionWrapper169(g)
    \/ \E g \in BagToSet(thr) : actionWrapper169w(g)

SpecFine == InitFine /\ [][NextFine]_vars

---------------------------------------------------------------------------
(* SpecRing: the ring buffer on its own.  Any sequence of Enqueue and      *)
(* Dequeue calls on the buffer Init made, each call one step; the items    *)
(* are task pointers, which are not nil at any call site (fsq.go:117).     *)
(* admitted is the history of the items Enqueue accepted that no Dequeue   *)
(* has returned yet, oldest first.                                         *)

ErrFull == "Can't enqueue, ring buffer is full."

\* one more item than the largest buffer has slots
RingTasks == 1..(MaxCap + 1)

EnqueueCall ==
    \E t \in RingTasks :
        LET r == Enqueue(q.items, t)
        IN  /\ q' = [q EXCEPT !.items = r.rb]
            /\ call' = Called("Enqueue", <<>>, IF r.err THEN ErrFull ELSE NoErr,
                              t, NilTask)
            /\ admitted' = IF r.err THEN admitted ELSE Append(admitted, t)
            /\ UNCHANGED <<gor, thr, crashed>>

DequeueCall ==
    LET r == Dequeue(q.items)
    IN  /\ q' = [q EXCEPT !.items = r.rb]
        /\ call' = Called("Dequeue", <<>>, NoErr, r.task, NilTask)
        /\ admitted' = IF admitted = <<>> THEN admitted ELSE Tail(admitted)
        /\ UNCHANGED <<gor, thr, crashed>>

NextRing == EnqueueCall \/ DequeueCall

SpecRing == Init /\ [][NextRing]_vars

---------------------------------------------------------------------------
(* What the properties below speak of. *)

Running(Q) == Q.isRunning
Full(Q) == Q.items.CurrentSize = Q.items.MaxSize
Blank(id) == \A i \in 1..Len(id) : id[i] \in Whitespace

\* some task admitted under id is Waiting / Processing
WaitingUnder(Q, id) ==
    \E t \in 1..Len(Q.heap) :
        Q.heap[t].state = waiting /\ Q.heap[t].externalId = id
ProcessingUnder(Q, id) ==
    \E t \in 1..Len(Q.heap) :
        Q.heap[t].state = processing /\ Q.heap[t].externalId = id

\* SpecFine: the tasks whose action is executing
Executing == {g.task : g \in {h \in BagToSet(thr) : h.pc = "action"}}

\* SpecFine: goroutine g has read or written the bookkeeping of the queue
\* (ring buffer, pool, maps, counters) in Add, processTask or the cleanup of
\* actionWrapper, and has not returned from it
InSection(g) == g.pc \notin {"84", "89", "160", "action", "167", "168"}

\* SpecFine: the number of tasks that were dispatched (counted at fsq.go:153)
\* and whose completion handler has not yet counted them out (fsq.go:169)
InFlight ==
    LET S == {g \in BagToSet(thr) :
                 g.pc \in {"154", "155", "160", "action", "167", "168", "168w",
                           "169", "169w"}}
    IN  BagCardinality([g \in S |-> CopiesIn(g, thr)])

\* task t sits in a slot of the ring buffer
InRing(Q, t) == \E i \in DOMAIN Q.items.items : Q.items.items[i] = t

\* the number of places task t is in: slots of the ring buffer, wrapper
\* goroutines, entries of the ready pool
RingCount(Q, t) == Cardinality({i \in DOMAIN Q.items.items : Q.items.items[i] = t})
PoolCount(Q, t) == Cardinality({i \in 1..Len(Q.readyTaskPool) : Q.readyTaskPool[i] = t})
GoCount(t) ==
    LET S == {g \in BagToSet(gor) : g.task = t}
    IN  BagCardinality([g \in S |-> CopiesIn(g, gor)])

Rejected == call'.task = NilTask /\ call'.dispatched = NilTask
              /\ q' = q /\ gor' = gor /\ admitted' = admitted

---------------------------------------------------------------------------
(* C1: for every interleaving of concurrent Add callers and completion     *)
(* handlers, stepped statement by statement, the number of tasks whose     *)
(* action is executing at the same time never exceeds the maxProcessCount  *)
(* passed to Init (taken as 0 when it is negative: nothing executes).      *)
C1_ConcurrencyBound ==
    Cardinality(Executing) <= IF q.maxProcessing < 0 THEN 0 ELSE q.maxProcessing

(* C2: the number of task objects ever allocated (taskCount, the size of   *)
(* tasksById) never exceeds the capacity N of the queue.                   *)
C2_AllocatedWithinCapacity ==
    /\ q.taskCount = Cardinality(DOMAIN q.tasksById)
    /\ q.taskCount <= q.items.MaxSize

(* C3, as stated: while a task admitted under id X is Waiting, every Add   *)
(* with id X fails with the duplicate-id error; once that task has been    *)
(* dispatched, an Add with id X on a running, non-full queue succeeds.     *)
C3_DuplicateWhileWaiting ==
    [][ /\ (call'.op = "Add" /\ WaitingUnder(q, call'.id))
              => call'.ret = ErrDuplicateId
        /\ (call'.op = "Add" /\ Running(q) /\ ~Full(q)
              /\ ProcessingUnder(q, call'.id) /\ ~WaitingUnder(q, call'.id))
              => call'.ret = NoErr ]_vars

(* C3, amended: while a task admitted under id X is Waiting, every Add     *)
(* with id X fails and changes nothing, with the duplicate-id error when   *)
(* the queue is running and not full (not-running and no-capacity are      *)
(* reported first); the step that dispatches the task frees its id, and    *)
(* from then on an Add with id X on a running, non-full queue succeeds     *)
(* although the first task is still Processing.                            *)
C3_DuplicateWhileWaitingAmended ==
    [][ /\ (call'.op = "Add" /\ WaitingUnder(q, call'.id))
              => /\ call'.ret \in {ErrNotRunning, ErrNoCapacity, ErrDuplicateId}
                 /\ (Running(q) /\ ~Full(q)) => call'.ret = ErrDuplicateId
                 /\ Rejected
        /\ call'.dispatched # NilTask
              => ~WaitingUnder(q', q'.heap[call'.dispatched].externalId)
        /\ (call'.op = "Add" /\ Running(q) /\ ~Full(q)
              /\ ProcessingUnder(q, call'.id) /\ ~WaitingUnder(q, call'.id))
              => /\ call'.ret = NoErr
                 /\ WaitingUnder(q', call'.id) \/ call'.dispatched = call'.task ]_vars

\* an id was admitted again while its first task is Processing, and a third
\* Add under it was turned away as a duplicate
C3_Witness ==
    /\ call.op = "Add" /\ call.ret = ErrDuplicateId
    /\ WaitingUnder(q, call.id) /\ ProcessingUnder(q, call.id)

(* C4: an Add on a running queue whose ring buffer is full                 *)
(* (CurrentSize = MaxSize) fails with the no-capacity error, changes no    *)
(* queue state and attempts no dispatch.                                   *)
C4_FullRejects ==
    [][ (call'.op = "Add" /\ Running(q) /\ Full(q))
            => (call'.ret = ErrNoCapacity /\ Rejected) ]_vars

C4_Witness ==
    call.op = "Add" /\ call.ret = ErrNoCapacity /\ Full(q) /\ q.items.MaxSize > 1

(* C5: on a stopped queue every Add fails with the not-running error,      *)
(* whatever its arguments, and admits nothing.                             *)
C5_StoppedRejects ==
    [][ (call'.op = "Add" /\ ~Running(q))
            => (call'.ret = ErrNotRunning /\ Rejected) ]_vars

\* a valid, unused id turned away by a queue stopped with room left
C5_Witness ==
    /\ call.op = "Add" /\ call.ret = ErrNotRunning
    /\ ~Blank(call.id) /\ ~WaitingUnder(q, call.id)
    /\ ~Full(q) /\ q.taskCount > 0

(* C6, as stated: an Add whose id is empty or only whitespace fails with   *)
(* the InvalidId error, whatever the state of the queue.                   *)
C6_BlankIdInvalid ==
    [][ (call'.op = "Add" /\ Blank(call'.id)) => call'.ret = ErrInvalidId ]_vars

(* C6, amended: an Add whose id is empty or only whitespace always fails   *)
(* and changes nothing: with the not-running error on a stopped queue,     *)
(* with the no-capacity error on a running queue whose buffer is full, and *)
(* with the InvalidId error otherwise.                                     *)
C6_BlankIdInvalidAmended ==
    [][ (call'.op = "Add" /\ Blank(call'.id))
            => /\ call'.ret = IF ~Running(q) THEN ErrNotRunning
                              ELSE IF Full(q) THEN ErrNoCapacity
                              ELSE ErrInvalidId
               /\ Rejected ]_vars

C6_Witness ==
    /\ call.op = "Add" /\ call.ret = ErrInvalidId
    /\ Len(call.id) > 1 /\ Blank(call.id)

(* C7: tasks are moved to Processing in the order in which their Add calls *)
(* succeeded: the task a step dispatches is the one admitted longest ago   *)
(* among those not yet dispatched.                                         *)
C7_DispatchInAdmissionOrder ==
    [][ call'.dispatched # NilTask
            => call'.dispatched =
                   Head(IF call'.op = "Add" /\ call'.task # NilTask
                        THEN Append(admitted, call'.task)
                        ELSE admitted) ]_vars

\* a completion dispatched the older of two waiting tasks
C7_Witness ==
    /\ call.op = "Complete" /\ call.dispatched # NilTask
    /\ Len(admitted) > 0 /\ q.maxProcessing >= 1

(* C8: with maxProcessCount >= 1, every task admitted by a successful Add  *)
(* is eventually dispatched, given only that started actions return and    *)
(* their handlers run (no further Add is needed).  A task leaves Waiting    *)
(* only by being dispatched, and while it waits no second task is admitted *)
(* under its id, so the task waiting under an id names one admission.      *)
C8_NoTaskStranded ==
    \A id \in ValidIds :
        (q.maxProcessing >= 1 /\ WaitingUnder(q, id)) ~> ~WaitingUnder(q, id)

\* a completion, not an Add, moved a waiting task to Processing
C8_Witness ==
    /\ call.op = "Complete" /\ call.dispatched # NilTask
    /\ q.heap[call.dispatched].state = processing

(* C9: Stop gates admission only: on a stopped queue every completion      *)
(* still dispatches the next waiting task, so with maxProcessCount >= 1    *)
(* the buffer of a queue that stays stopped drains to empty.               *)
C9_StoppedQueueDrains ==
    /\ [][ (call'.op = "Complete" /\ ~Running(q) /\ q.items.CurrentSize > 0
              /\ q.countProcessing <= q.maxProcessing)
            => (call'.dispatched # NilTask
                /\ q'.items.CurrentSize = q.items.CurrentSize - 1) ]_vars
    /\ (q.maxProcessing >= 1 /\ ~Running(q))
        ~> (Running(q) \/ q.items.CurrentSize = 0)

\* a completion on a stopped queue dispatched a waiting task
C9_Witness ==
    ~Running(q) /\ call.op = "Complete" /\ call.dispatched # NilTask

(* C10: a task admitted with nil params or a nil action is accepted by Add *)
(* (on a running, non-full queue, with a valid id); when it is dispatched  *)
(* its action is not invoked; and its completion cleans it, returns it to  *)
(* the ready pool and decrements countProcessing, as for a task that ran.  *)
C10_NilTaskSkippedAndRecycled ==
    /\ [][ (call'.op = "Add" /\ Running(q) /\ ~Full(q)
              /\ ~Blank(call'.id) /\ ~WaitingUnder(q, call'.id))
            => /\ call'.ret = NoErr
               /\ q'.heap[call'.task].state \in {waiting, processing} ]_vars
    /\ [] (\A g \in BagToSet(gor) :
              g.pc = "running" => /\ q.heap[g.task].action # Nil
                                  /\ q.heap[g.task].params # Nil)
    /\ [][ call'.op = "Complete"
            => /\ q.heap[call'.task].state = processing
               /\ q'.heap[call'.task] =
                     [state |-> ready, action |-> Nil, params |-> Nil,
                      id |-> call'.task, externalId |-> <<>>]
               /\ q'.readyTaskPool = Append(q.readyTaskPool, call'.task)
               /\ q'.countProcessing = q.countProcessing - 1
                     + (IF call'.dispatched = NilTask THEN 0 ELSE 1)
               /\ \A g \in BagToSet(gor') : g.task # call'.task ]_vars

\* a task admitted with a nil action or nil params went through Processing
\* without its action being called and is back in the pool
C10_Witness ==
    /\ call.op = "Complete" /\ call.ret = ErrNilCall
    /\ q.heap[call.task].state = ready
    /\ q.readyTaskPool # <<>>
    /\ q.readyTaskPool[Len(q.readyTaskPool)] = call.task


(* C11: when a task's action returns an error, the completion handler      *)
(* leaves the queue as it does when the action returns nil: the task is    *)
(* cleaned and pushed on the ready pool, countProcessing is decremented,   *)
(* the next waiting task (if a slot is free) is dispatched, and the        *)
(* running flag and the limits are untouched, so the queue goes on         *)
(* admitting and running tasks.                                            *)
C11_FailedActionRecycled ==
    [][ (call'.op = "Complete" /\ call'.ret = ErrAction)
            => /\ q' = actionWrapper(q, call'.task).q
               /\ q'.heap[call'.task] =
                     [state |-> ready, action |-> Nil, params |-> Nil,
                      id |-> q.heap[call'.task].id, externalId |-> <<>>]
               /\ q'.readyTaskPool = Append(q.readyTaskPool, call'.task)
               /\ IF q.items.CurrentSize > 0 /\ q.countProcessing - 1 < q.maxProcessing
                  THEN /\ call'.dispatched = q.items.items[q.items.head]
                       /\ q'.heap[call'.dispatched].state = processing
                       /\ q'.countProcessing = q.countProcessing
                  ELSE /\ call'.dispatched = NilTask
                       /\ q'.countProcessing = q.countProcessing - 1
               /\ q'.isRunning = q.isRunning
               /\ q'.maxProcessing = q.maxProcessing
               /\ q'.items.MaxSize = q.items.MaxSize ]_vars

\* a running queue whose task failed dispatched the next waiting task
C11_Witness ==
    /\ call.op = "Complete" /\ call.ret = ErrAction
    /\ call.dispatched # NilTask /\ Running(q)
    /\ q.readyTaskPool # <<>>

(* C12: for any sequence of Enqueue and Dequeue calls on a ring buffer of  *)
(* capacity N, wrapped around the end of the array or not, a Dequeue       *)
(* returns the oldest item accepted by Enqueue and not yet returned, or    *)
(* nil when there is none, and Enqueue accepts an item exactly when fewer  *)
(* than N are held: the buffer is a bounded FIFO sequence.                 *)
C12_RingIsFifo ==
    [][ /\ call'.op = "Dequeue"
            => call'.task = IF admitted = <<>> THEN NilTask ELSE Head(admitted)
        /\ call'.op = "Enqueue"
            => (call'.ret = NoErr <=> Len(admitted) < q.items.MaxSize) ]_vars

\* a Dequeue took the item of the last slot, head wrapped to slot 0, where
\* an item enqueued after tail wrapped is held
C12_Witness ==
    /\ call.op = "Dequeue" /\ call.task # NilTask
    /\ q.items.MaxSize > 1 /\ q.items.head = 0 /\ q.items.tail = 0
    /\ q.items.CurrentSize = 1 /\ admitted # <<>>
    /\ q.items.items[0] = admitted[1] /\ admitted[1] # call.task

(* C13: the bookkeeping of the queue is accessed under mutual exclusion:   *)
(* at no time are two goroutines inside an admission (Add), a dispatch     *)
(* (processTask) or a completion handler's cleanup; running the action is  *)
(* outside the section.                                                    *)
C13_MutualExclusion ==
    LET S == {g \in BagToSet(thr) : InSection(g)}
    IN  S = {} \/ \E g \in S : S = {g} /\ CopiesIn(g, thr) = 1

(* C14: for every interleaving of concurrent Add callers and completion    *)
(* handlers, the Enqueue that Add performs after it passed the IsFull      *)
(* check never returns the buffer-full error, so that no task is left in   *)
(* waitingTasksByExternalId without a place in the ring buffer.            *)
C14_EnqueueAfterCheckSucceeds ==
    [][ \A g \in BagToSet(thr) :
            ~(q.items.CurrentSize = q.items.MaxSize /\ Enqueue16(g)) ]_vars

(* C15: for every interleaving of concurrent Add callers and completion    *)
(* handlers, countProcessing equals the number of tasks that have been     *)
(* dispatched and whose completion handler has not finished: no increment  *)
(* or decrement is lost, and the counter is never below 0.                 *)
C15_CounterExact ==
    /\ q.countProcessing >= 0
    /\ q.countProcessing = InFlight

(* C16: after any sequence of Add calls, dispatches and completions, each  *)
(* one atomic step, an id is a key of waitingTasksByExternalId if and only *)
(* if some task with that external id is Waiting and sits in the ring      *)
(* buffer; the map has as many keys as the buffer has items, and the task  *)
(* mapped to an id is that very task.                                      *)
C16_WaitingIndexExact ==
    /\ \A id \in Ids \cup DOMAIN q.waitingTasksByExternalId :
           id \in DOMAIN q.waitingTasksByExternalId
               <=> \E t \in 1..Len(q.heap) :
                       /\ q.heap[t].state = waiting
                       /\ q.heap[t].externalId = id
                       /\ InRing(q, t)
    /\ Cardinality(DOMAIN q.waitingTasksByExternalId) = q.items.CurrentSize
    /\ \A id \in DOMAIN q.waitingTasksByExternalId :
           LET t == q.waitingTasksByExternalId[id]
           IN  /\ InRing(q, t)
               /\ q.heap[t].state = waiting
               /\ q.heap[t].externalId = id
               /\ \A u \in 1..Len(q.heap) :
                      (q.heap[u].state = waiting /\ q.heap[u].externalId = id) => u = t

\* two ids are waiting while a task admitted under one of them is Processing
C16_Witness ==
    /\ Cardinality(DOMAIN q.waitingTasksByExternalId) = 2
    /\ \E id \in DOMAIN q.waitingTasksByExternalId : ProcessingUnder(q, id)
    /\ call.op = "Add" /\ call.ret = NoErr

(* C17: after any sequence of Enqueue and Dequeue calls on a ring buffer   *)
(* of capacity N >= 1, rejected ones included: 0 <= CurrentSize <= N,      *)
(* IsFull is true exactly when CurrentSize = N, head and tail lie in       *)
(* [0, N), and exactly the CurrentSize slots starting at head (mod N) are  *)
(* not nil.                                                                *)
C17_RingWellFormed ==
    LET rb == q.items
        N  == rb.MaxSize
    IN  /\ N >= 1
        /\ 0 <= rb.CurrentSize /\ rb.CurrentSize <= N
        /\ rb.IsFull <=> rb.CurrentSize = N
        /\ rb.head \in 0..(N - 1)
        /\ rb.tail \in 0..(N - 1)
        /\ DOMAIN rb.items = 0..(N - 1)
        /\ \A i \in 0..(N - 1) :
               rb.items[i] # NilTask
                   <=> \E k \in 0..(rb.CurrentSize - 1) : i = (rb.head + k) % N

\* an Enqueue was rejected by a full buffer whose items wrap around the end
C17_Witness ==
    /\ call.op = "Enqueue" /\ call.ret = ErrFull
    /\ q.items.head > 0 /\ q.items.IsFull
    /\ q.items.CurrentSize = q.items.MaxSize

(* C18: after any sequence of Add calls and completions, each one atomic   *)
(* step, every allocated task is in exactly one place, which matches its   *)
(* state: in the ring buffer (Waiting), executing (Processing), or in the  *)
(* ready pool (Ready, with action, params and external id cleared); hence  *)
(* taskCount = CurrentSize + countProcessing + len(readyTaskPool), and no  *)
(* task is twice in the buffer or the pool.                                *)
C18_TaskInOnePlace ==
    /\ q.taskCount = Len(q.heap)
    /\ \A t \in 1..Len(q.heap) :
           /\ RingCount(q, t) + GoCount(t) + PoolCount(q, t) = 1
           /\ RingCount(q, t) = 1 <=> q.heap[t].state = waiting
           /\ GoCount(t) = 1 <=> q.heap[t].state = processing
           /\ PoolCount(q, t) = 1 <=> q.heap[t].state = ready
           /\ q.heap[t].state = ready
                  => /\ q.heap[t].action = Nil
                     /\ q.heap[t].params = Nil
                     /\ q.heap[t].externalId = <<>>
    /\ q.taskCount = q.items.CurrentSize + q.countProcessing + Len(q.readyTaskPool)

\* three tasks, one in each place
C18_Witness ==
    /\ q.taskCount = 3
    /\ q.items.CurrentSize = 1 /\ q.countProcessing = 1 /\ Len(q.readyTaskPool) = 1

(* C19: a successful Add allocates a new task, incrementing taskCount and  *)
(* registering the task in tasksById under the next id, only when the      *)
(* ready pool is empty; otherwise it reuses the task released last (the    *)
(* end of the pool), leaving taskCount and tasksById unchanged and the     *)
(* task's internal id as it was.                                           *)
C19_ReuseBeforeAllocate ==
    [][ (call'.op = "Add" /\ call'.ret = NoErr)
            => IF q.readyTaskPool = <<>>
               THEN /\ call'.task \notin 1..Len(q.heap)
                    /\ q'.taskCount = q.taskCount + 1
                    /\ q'.heap[call'.task].id = q.taskCount + 1
                    /\ q'.tasksById = MapPut(q.tasksById, q.taskCount + 1, call'.task)
                    /\ q'.readyTaskPool = <<>>
               ELSE /\ call'.task = q.readyTaskPool[Len(q.readyTaskPool)]
                    /\ q'.readyTaskPool =
                           SubSeq(q.readyTaskPool, 1, Len(q.readyTaskPool) - 1)
                    /\ q'.taskCount = q.taskCount
                    /\ q'.tasksById = q.tasksById
                    /\ Len(q'.heap) = Len(q.heap)
                    /\ q'.heap[call'.task].id = q.heap[call'.task].id ]_vars

\* an Add took the task released last from a pool of two
C19_Witness ==
    /\ call.op = "Add" /\ call.ret = NoErr
    /\ Len(q.readyTaskPool) = 1
    /\ q.taskCount >= 2
    /\ q.readyTaskPool[1] < call.task

C21_WorkConserving ==
    q.items.CurrentSize > 0 => q.countProcessing >= q.maxProcessing

\* a completion dispatched the next waiting task, and another task still
\* waits with every slot taken
C21_Witness ==
    /\ call.op = "Complete" /\ call.dispatched # NilTask
    /\ q.items.CurrentSize > 0
    /\ q.maxProcessing >= 1 /\ q.countProcessing = q.maxProcessing

(* C22, as stated: on a queue created with maxProcessCount <= 0 no task is *)
(* ever dispatched: every admitted task stays Waiting, an Add under its id *)
(* fails, and once the buffer holds capacity-many tasks every further Add  *)
(* fails with the no-capacity error.                                       *)
C22_NoSlotNoDispatch ==
    /\ [] (q.maxProcessing <= 0 => (gor = EmptyBag /\ q.countProcessing = 0))
    /\ [][ q.maxProcessing <= 0
            => /\ call'.dispatched = NilTask
               /\ \A t \in 1..Len(q.heap) :
                      q.heap[t].state = waiting
                          => /\ q'.heap[t].state = waiting
                             /\ q'.heap[t].externalId = q.heap[t].externalId
                             /\ InRing(q', t)
               /\ (call'.op = "Add" /\ WaitingUnder(q, call'.id))
                      => call'.ret # NoErr
               /\ (call'.op = "Add" /\ Full(q))
                      => call'.ret = ErrNoCapacity ]_vars

(* C22, amended: on a queue created with maxProcessCount <= 0 no task is   *)
(* ever dispatched: every admitted task stays Waiting in the buffer, an    *)
(* Add under its id fails (as a duplicate when the queue is running and    *)
(* not full), and once the buffer holds capacity-many tasks every further  *)
(* Add fails and changes nothing, with the no-capacity error while the     *)
(* queue is running and with the not-running error once it is stopped.     *)
C22_NoSlotNoDispatchAmended ==
    /\ [] (q.maxProcessing <= 0 => (gor = EmptyBag /\ q.countProcessing = 0))
    /\ [][ q.maxProcessing <= 0
            => /\ call'.dispatched = NilTask
               /\ \A t \in 1..Len(q.heap) :
                      q.heap[t].state = waiting
                          => /\ q'.heap[t].state = waiting
                             /\ q'.heap[t].externalId = q.heap[t].externalId
                             /\ InRing(q', t)
               /\ (call'.op = "Add" /\ WaitingUnder(q, call'.id))
                      => /\ call'.ret # NoErr
                         /\ (Running(q) /\ ~Full(q)) => call'.ret = ErrDuplicateId
               /\ (call'.op = "Add" /\ Full(q))
                      => /\ call'.ret = IF Running(q) THEN ErrNoCapacity
                                        ELSE ErrNotRunning
                         /\ Rejected ]_vars

\* a running queue without a processing slot holds capacity-many waiting
\* tasks and turned a further Add away
C22_Witness ==
    /\ q.maxProcessing <= 0 /\ Running(q)
    /\ q.items.MaxSize > 1 /\ Full(q)
    /\ q.taskCount = q.items.MaxSize
    /\ \A t \in 1..Len(q.heap) : q.heap[t].state = waiting
    /\ call.op = "Add" /\ call.ret = ErrNoCapacity
============================================================================
